---- MODULE Spec2Model ----
(***************************************************************************)
(* Model of the generative-media client of idiamond (Veo Studio):          *)
(*   services/geminiService : enhancePrompt, generateAudio, generateVideo  *)
(* One invocation of one of the three functions is followed from the call  *)
(* to the settlement of its promise.  Every step of the model is one run   *)
(* of JavaScript between two awaits: the caller's call, or the             *)
(* continuation that runs when an awaited remote call or timer settles.    *)
(* Text is modelled by TLA+ strings, so that concatenation, trimming and   *)
(* substring search are computed and not assumed.                          *)
(***************************************************************************)
EXTENDS Integers, Sequences, FiniteSets, Bags, TLC

(***************************************************************************)
(* Bounds of the model.                                                    *)
(***************************************************************************)
\* largest number of status re-fetches a responsive service lets happen
MaxPolls == 2

(***************************************************************************)
(* Optional values (undefined / null in the source).                       *)
(***************************************************************************)
None == <<>>
Some(v) == <<v>>
IsSome(o) == o # <<>>
Get(o) == o[1]

(***************************************************************************)
(* Text helpers.                                                           *)
(***************************************************************************)
\* String.prototype.includes
Includes(s, sub) ==
  \E i \in 1..(Len(s) - Len(sub) + 1) : SubSeq(s, i, i + Len(sub) - 1) = sub

\* the characters String.prototype.trim removes (those the inputs use)
IsWhitespace(c) == c \in {" ", "\t", "\n"}

RECURSIVE TrimStart(_)
TrimStart(s) ==
  IF Len(s) = 0 THEN s
  ELSE IF IsWhitespace(Head(s)) THEN TrimStart(Tail(s)) ELSE s

RECURSIVE TrimEnd(_)
TrimEnd(s) ==
  IF Len(s) = 0 THEN s
  ELSE IF IsWhitespace(SubSeq(s, Len(s), Len(s)))
       THEN TrimEnd(SubSeq(s, 1, Len(s) - 1)) ELSE s

\* String.prototype.trim
Trim(s) == TrimEnd(TrimStart(s))

(***************************************************************************)
(* Thrown values.  An Error carries its message; any other thrown value    *)
(* (a string, a plain object) is not an instance of Error, its diagnostic  *)
(* text is kept in the same field.                                         *)
(***************************************************************************)
Error(msg) == [isError |-> TRUE, message |-> msg]
NonError(text) == [isError |-> FALSE, message |-> text]

\* values a remote call (SDK call, fetch, body read) can reject with
RejectValues ==
  { Error("Requested entity was not found."),
    Error("API key not valid. Please pass a valid API key."),
    NonError("quota exceeded") }

\* error instanceof Error ? error.message : 'An unknown error occurred.'
MessageOf(e) == IF e.isError THEN e.message ELSE "An unknown error occurred."


(***************************************************************************)
(* Request data (types.ts as used by geminiService).                       *)
(***************************************************************************)
TEXT_TO_VIDEO == "TEXT_TO_VIDEO"
FRAMES_TO_VIDEO == "FRAMES_TO_VIDEO"
REFERENCES_TO_VIDEO == "REFERENCES_TO_VIDEO"
EXTEND_VIDEO == "EXTEND_VIDEO"
GenerationMode == {TEXT_TO_VIDEO, FRAMES_TO_VIDEO, REFERENCES_TO_VIDEO, EXTEND_VIDEO}

\* an ImageFile: base64 payload and the File it came from
ImageFile(b64, type, name) == [base64 |-> b64, file |-> [type |-> type, name |-> name]]
ImgA == ImageFile("QUFB", "image/png", "a.png")
ImgB == ImageFile("QkJC", "image/jpeg", "b.jpg")
ImgC == ImageFile("Q0ND", "image/webp", "c.webp")

\* a Video descriptor of the service: uri is optional
Video(uri, mime) == [uri |-> uri, mimeType |-> mime]
\* a previously generated video, handed back for EXTEND_VIDEO
PreviousVideo == Video(Some("files%2Fv0%3Aget%3Falt%3Dmedia"), "video/mp4")

VideoParams(mode, prompt, startFrame, endFrame, isLooping, refs, style, input) ==
  [ mode |-> mode, prompt |-> prompt, model |-> "veo-model",
    resolution |-> "720p", aspectRatio |-> "16:9",
    startFrame |-> startFrame, endFrame |-> endFrame, isLooping |-> isLooping,
    referenceImages |-> refs, styleImage |-> style, inputVideoObject |-> input ]

VideoPrompts == {"", "a cat"}

\* the requests a caller submits in the model
VideoRequests ==
  { VideoParams(TEXT_TO_VIDEO, p, None, None, FALSE, None, None, None) :
      p \in VideoPrompts }
  \cup
  { VideoParams(FRAMES_TO_VIDEO, "a cat", s, e, l, None, None, None) :
      s \in {None, Some(ImgA)}, e \in {None, Some(ImgB)}, l \in BOOLEAN }
  \cup
  { VideoParams(REFERENCES_TO_VIDEO, "a cat", None, None, FALSE, r, st, None) :
      r \in {None, Some(<<>>), Some(<<ImgA, ImgB>>), Some(<<ImgB, ImgA>>)},
      st \in {None, Some(ImgC)} }
  \cup
  { VideoParams(EXTEND_VIDEO, p, None, None, FALSE, None, None, i) :
      p \in VideoPrompts, i \in {None, Some(PreviousVideo)} }

AudioRequests ==
  { [prompt |-> p, voice |-> v] : p \in {"hello", ""}, v \in {"Zephyr", "Puck"} }

EnhancePrompts == {"", "   ", " \t\n", "a cat", "  a cat ", "a"}

\* every combination of the fields of a request, whatever the mode
AllVideoRequests ==
  { [ VideoParams(m, p, s, e, l, r, st, i) EXCEPT !.aspectRatio = a ] :
      m \in GenerationMode, p \in {"", " ", "a cat"},
      s \in {None, Some(ImgA)}, e \in {None, Some(ImgB)}, l \in BOOLEAN,
      r \in {None, Some(<<>>), Some(<<ImgA, ImgB>>), Some(<<ImgB, ImgA>>)},
      st \in {None, Some(ImgC)}, i \in {None, Some(PreviousVideo)},
      a \in {"16:9", "9:16"} }

(***************************************************************************)
(* generateVideo, lines 98-184: the payload handed to generateVideos, or   *)
(* the validation error thrown before the submission.                      *)
(***************************************************************************)
ImagePayload(img) == [imageBytes |-> img.base64, mimeType |-> img.file.type]

ReferenceEntry(img, type) == [image |-> ImagePayload(img), referenceType |-> type]

\* variant: the style entry is pushed before the asset entries
ReferenceImagesPayloadStyleFirst(params) ==
  LET refs == IF IsSome(params.referenceImages)
              THEN Get(params.referenceImages) ELSE <<>>
      assets == [i \in 1..Len(refs) |-> ReferenceEntry(refs[i], "ASSET")]
  IN IF IsSome(params.styleImage)
     THEN <<ReferenceEntry(Get(params.styleImage), "STYLE")>> \o assets
     ELSE assets

\* for (const img of params.referenceImages) push ASSET; then push STYLE
ReferenceImagesPayload(params) ==
  LET refs == IF IsSome(params.referenceImages)
              THEN Get(params.referenceImages) ELSE <<>>
      assets == [i \in 1..Len(refs) |-> ReferenceEntry(refs[i], "ASSET")]
  IN IF IsSome(params.styleImage)
     THEN Append(assets, ReferenceEntry(Get(params.styleImage), "STYLE"))
     ELSE assets

\* variant: a supplied end frame wins over looping
FinalEndFramePrefersEnd(params) ==
  IF IsSome(params.endFrame) THEN params.endFrame
  ELSE IF params.isLooping THEN params.startFrame ELSE None

\* variant: the end frame is used only next to a start frame
FinalEndFrameNeedsStart(params) ==
  IF params.isLooping \/ ~IsSome(params.startFrame)
  THEN params.startFrame ELSE params.endFrame

\* params.isLooping ? params.startFrame : params.endFrame
FinalEndFrame(params) ==
  IF params.isLooping THEN params.startFrame ELSE params.endFrame

\* variant: the aspect ratio is set in every mode
ConfigAspectRatioAlways(params) == Some(params.aspectRatio)

\* config.aspectRatio is set unless the mode is EXTEND_VIDEO
ConfigAspectRatio(params) ==
  IF params.mode # EXTEND_VIDEO THEN Some(params.aspectRatio) ELSE None

\* variant: the prompt is always put in the payload
PayloadPromptAlways(params) == Some(params.prompt)

\* if (params.prompt): the empty string is falsy
PayloadPrompt(params) ==
  IF params.prompt # "" THEN Some(params.prompt) ELSE None

\* variant: the input video object is not required
MissingInputVideoIgnored(params) == FALSE

\* EXTEND_VIDEO without an input video object is refused
MissingInputVideo(params) ==
  params.mode = EXTEND_VIDEO /\ ~IsSome(params.inputVideoObject)

BuildPayload(params) ==
  LET frames == params.mode = FRAMES_TO_VIDEO
      refsMode == params.mode = REFERENCES_TO_VIDEO
      list == ReferenceImagesPayload(params)
      config ==
        [ numberOfVideos |-> 1,
          resolution |-> params.resolution,
          aspectRatio |-> ConfigAspectRatio(params),
          lastFrame |->
            IF frames /\ IsSome(FinalEndFrame(params))
            THEN Some(ImagePayload(Get(FinalEndFrame(params)))) ELSE None,
          referenceImages |->
            IF refsMode /\ Len(list) > 0 THEN Some(list) ELSE None ]
  IN [ model |-> params.model,
       config |-> config,
       prompt |-> PayloadPrompt(params),
       image |->
         IF frames /\ IsSome(params.startFrame)
         THEN Some(ImagePayload(Get(params.startFrame))) ELSE None,
       video |->
         IF params.mode = EXTEND_VIDEO THEN params.inputVideoObject ELSE None ]

(***************************************************************************)
(* The remote service: what its calls can resolve to.                      *)
(***************************************************************************)
GeneratedVideo(video) == [video |-> video]

V1 == Video(Some("files%2Fv1%3Aget%3Falt%3Dmedia"), "video/mp4")
V2 == Video(Some("files%2Fv2%3Aget%3Falt%3Dmedia"), "video/mp4")
\* a descriptor whose uri is not a valid percent-encoding
VBad == Video(Some("files%2Fv3%"), "video/mp4")

\* operation.response values of a finished operation
DoneResponses ==
  { None,
    Some([generatedVideos |-> None]),
    Some([generatedVideos |-> Some(<<>>)]),
    Some([generatedVideos |-> Some(<<GeneratedVideo(None)>>)]),
    Some([generatedVideos |-> Some(<<GeneratedVideo(Some(Video(None, "video/mp4")))>>)]),
    Some([generatedVideos |-> Some(<<GeneratedVideo(Some(Video(Some(""), "video/mp4")))>>)]),
    Some([generatedVideos |-> Some(<<GeneratedVideo(Some(V1))>>)]),
    Some([generatedVideos |-> Some(<<GeneratedVideo(Some(V2)), GeneratedVideo(Some(V1))>>)]),
    Some([generatedVideos |-> Some(<<GeneratedVideo(Some(VBad))>>)]) }

NotDoneOperation == [done |-> FALSE, response |-> None]
DoneOperations == { [done |-> TRUE, response |-> r] : r \in DoneResponses }
Operations == {NotDoneOperation} \cup DoneOperations

\* responses of the binary fetch
FetchResponses ==
  { [ok |-> TRUE, status |-> 200, statusText |-> "OK"],
    [ok |-> FALSE, status |-> 404, statusText |-> "Not Found"],
    [ok |-> FALSE, status |-> 503, statusText |-> "Service Unavailable"] }

\* process.env.API_KEY
ApiKey == "KEY"

\* responses of generateContent to the speech request: the inlineData of
\* candidates[0].content.parts[0], when there is one
AudioResponses ==
  { None,
    Some([data |-> None, mimeType |-> Some("audio/L16")]),
    Some([data |-> Some(""), mimeType |-> Some("audio/L16")]),
    Some([data |-> Some("UklGRg"), mimeType |-> None]),
    Some([data |-> Some("UklGRg"), mimeType |-> Some("audio/L16")]) }

\* responses of generateContent to the enhancement request: response.text
EnhanceResponses ==
  { None, Some(""), Some(" \n"), Some("A cat, at dusk."), Some("  A cat, at dusk.\n") }

(***************************************************************************)
(* decodeURIComponent: percent-decoding; a malformed escape throws         *)
(* URIError (None here).                                                   *)
(***************************************************************************)
PercentCodes ==
  ("2F" :> "/") @@ ("3A" :> ":") @@ ("3F" :> "?") @@ ("3D" :> "=") @@ ("26" :> "&")

RECURSIVE DecodeURIComponent(_)
DecodeURIComponent(s) ==
  IF Len(s) = 0 THEN Some("")
  ELSE IF Head(s) = "%"
       THEN IF Len(s) < 3 THEN None
            ELSE IF SubSeq(s, 2, 3) \notin DOMAIN PercentCodes THEN None
            ELSE LET rest == DecodeURIComponent(SubSeq(s, 4, Len(s)))
                 IN IF rest = None THEN None
                    ELSE Some(PercentCodes[SubSeq(s, 2, 3)] \o Get(rest))
       ELSE LET rest == DecodeURIComponent(Tail(s))
            IN IF rest = None THEN None ELSE Some(Head(s) \o Get(rest))

(***************************************************************************)
(* generateVideo, lines 190-216: the pieces of the continuation that runs  *)
(* when an operation status arrives.                                       *)
(***************************************************************************)
\* variant: the loop is never entered (the first status is taken as final)
LoopContinuesNever(op) == FALSE

\* variant: the loop test ignores the done flag
LoopContinuesAlways(op) == TRUE

\* while (!operation.done)
LoopContinues(op) == ~op.done

\* !videos || videos.length === 0
NoVideos(videos) == videos = None \/ Len(Get(videos)) = 0

\* variant: only an absent video or uri counts, the empty uri passes
MissingUriAbsentOnly(firstVideo) ==
  \/ firstVideo.video = None
  \/ Get(firstVideo.video).uri = None

\* !firstVideo?.video?.uri
MissingUri(firstVideo) ==
  \/ firstVideo.video = None
  \/ Get(firstVideo.video).uri = None
  \/ Get(Get(firstVideo.video).uri) = ""

ToFetch(url, video) == [throw |-> None, url |-> Some(url), video |-> Some(video)]
ToThrow(e) == [throw |-> Some(e), url |-> None, video |-> None]

\* variant: the test for an absent or empty list is left out; reading
\* index 0 of an absent list throws a TypeError, the first entry of an
\* empty list is undefined and so has no uri
InspectWithoutEmptyTest(op) ==
  IF op.response = None THEN ToThrow(Error("No videos generated."))
  ELSE LET videos == Get(op.response).generatedVideos IN
    IF videos = None
    THEN ToThrow(Error("Cannot read properties of undefined (reading '0')"))
    ELSE IF Len(Get(videos)) = 0 \/ MissingUri(Get(videos)[1])
    THEN ToThrow(Error("Generated video is missing a URI."))
    ELSE LET videoObject == Get(Get(videos)[1].video)
             decoded == DecodeURIComponent(Get(videoObject.uri))
         IN IF decoded = None THEN ToThrow(Error("URI malformed"))
            ELSE ToFetch(Get(decoded), videoObject)

\* lines 196-226 up to the fetch: what a finished operation leads to
Inspect(op) ==
  IF op.response = None THEN ToThrow(Error("No videos generated."))
  ELSE LET videos == Get(op.response).generatedVideos IN
    IF NoVideos(videos) THEN ToThrow(Error("No videos were generated."))
    ELSE LET firstVideo == Get(videos)[1] IN
      IF MissingUri(firstVideo)
      THEN ToThrow(Error("Generated video is missing a URI."))
      ELSE LET videoObject == Get(firstVideo.video)
               url == DecodeURIComponent(Get(videoObject.uri))
           IN IF url = None THEN ToThrow(Error("URI malformed"))
              ELSE ToFetch(Get(url), videoObject)

\* `${url}&key=${process.env.API_KEY}`
FetchUrl(url) == url \o "&key=" \o ApiKey

\* variant: the message carries the status only
FetchFailedMessageStatusOnly(r) ==
  "Failed to fetch video: " \o ToString(r.status)

\* `Failed to fetch video: ${res.status} ${res.statusText}`
FetchFailedMessage(r) ==
  "Failed to fetch video: " \o ToString(r.status) \o " " \o r.statusText

(***************************************************************************)
(* What the caller's promise rejects with when e is raised in the body.    *)
(***************************************************************************)
\* variant: generateVideo with the catch block of its two siblings
VideoFailureWrapped(e) == Error("Failed to generate video: " \o MessageOf(e))

\* generateVideo has no try/catch: the failure leaves the function as it is
VideoFailure(e) == e

\* generateAudio, lines 81-86
AudioFailure(e) == Error("Failed to generate audio: " \o MessageOf(e))

\* enhancePrompt, lines 42-47
EnhanceFailure(e) == Error("Failed to enhance prompt: " \o MessageOf(e))

\* variant: the prompt is tested without trimming it
PromptIsBlankUntrimmed(prompt) == prompt = ""

\* enhancePrompt, line 19: !prompt.trim()
PromptIsBlank(prompt) == Trim(prompt) = ""

\* generateAudio, line 79: `data:${mimeType};base64,${base64Audio}`
AudioObjectUrl(mimeType, base64Audio) ==
  "data:" \o mimeType \o ";base64," \o base64Audio

(***************************************************************************)
(* State.                                                                  *)
(***************************************************************************)
VARIABLES
  fn,           \* the function of the invocation followed: its name, or "none"
  pc,           \* where the invocation stands (the await it is suspended at)
  params,       \* the argument of the invocation
  service,      \* how the remote service behaves during the invocation
  payload,      \* generateVideoPayload, once built
  operation,    \* generateVideo's local variable `operation`
  url,          \* generateVideo's local variable `url`
  videoObject,  \* generateVideo's local variable `videoObject`
  res,          \* generateVideo's local variable `res`, the fetch response
  responses,    \* the operation statuses received so far, in order
  calls,        \* the remote calls issued so far, in order, with their outcome
  cause,        \* the failure first raised inside the function, if any
  thrown,       \* what the caller's promise rejected with, if it did
  result        \* what the caller's promise resolved to, if it did (the
                \* string enhancePrompt returns is held in a field `text`)

vars == <<fn, pc, params, service, payload, operation, url, videoObject, res,
          responses, calls, cause, thrown, result>>

Settled == {"returned", "thrown"}

\* "responsive": every status is an answer the service chooses, and it
\*    reports done or rejects after at most MaxPolls re-fetches;
\* "silent": it never reports done and never rejects.
ServiceModes == {"responsive", "silent"}

Issue(log, api) == Append(log, [api |-> api, outcome |-> "pending"])
SetOutcome(log, o) == [log EXCEPT ![Len(log)].outcome = o]
CountOf(log, api) == Cardinality({i \in 1..Len(log) : log[i].api = api})
Refetches == CountOf(calls, "getVideosOperation")

\* variant: a failed generateVideo goes back to polling
AfterFailureRetry(f) == IF f = "generateVideo" THEN "sleep" ELSE "thrown"

\* where an invocation goes when a remote call or its result fails: no
\* function re-issues a call, the failure leaves the function
AfterFailure(f) == "thrown"

(***************************************************************************)
(* State of the App component (App.tsx).  The invocations above are        *)
(* followed with the App at rest; the App is followed in AppSpec below.    *)
(***************************************************************************)
VARIABLES
  aistudio,           \* whether window.aistudio is present
  dialogModal,        \* whether the API key dialog covers the rest of the page
  appState,           \* useState: appState
  videoUrl,           \* useState: videoUrl
  errorMessage,       \* useState: errorMessage
  lastConfig,         \* useState: lastConfig
  lastVideoObject,    \* useState: lastVideoObject
  lastVideoBlob,      \* useState: lastVideoBlob
  initialFormValues,  \* useState: initialFormValues
  audioAppState,      \* useState: audioAppState
  audioUrl,           \* useState: audioUrl
  audioErrorMessage,  \* useState: audioErrorMessage
  lastAudioConfig,    \* useState: lastAudioConfig
  activeTool,         \* useState: activeTool
  showApiKeyDialog,   \* useState: showApiKeyDialog
  tasks,              \* the async handlers suspended at an await, in call order
  videoUrlFrom,       \* the params of the generateVideo call that set videoUrl
  event               \* the handler step taken last

envVars == <<aistudio, dialogModal>>
videoVars == <<appState, videoUrl, errorMessage, lastConfig, lastVideoObject,
               lastVideoBlob, initialFormValues, videoUrlFrom>>
audioVars == <<audioAppState, audioUrl, audioErrorMessage, lastAudioConfig>>
appVars == <<envVars, videoVars, audioVars, activeTool, showApiKeyDialog,
             tasks, event>>
allVars == <<vars, appVars>>

IDLE == "IDLE"
LOADING == "LOADING"
SUCCESS == "SUCCESS"
ERROR == "ERROR"

Event(kind, error, opened) == [kind |-> kind, error |-> error, opened |-> opened]

\* the useState initial values, lines 30-52
AppMounted ==
  /\ appState = IDLE /\ videoUrl = None /\ errorMessage = None
  /\ lastConfig = None /\ lastVideoObject = None /\ lastVideoBlob = None
  /\ initialFormValues = None /\ videoUrlFrom = None
  /\ audioAppState = IDLE /\ audioUrl = None /\ audioErrorMessage = None
  /\ lastAudioConfig = None
  /\ activeTool = "video" /\ showApiKeyDialog = FALSE
  /\ event = Event("mount", None, FALSE)

\* the App with no window.aistudio and nothing in progress
AppAtRest ==
  /\ aistudio = FALSE /\ dialogModal = TRUE
  /\ AppMounted
  /\ tasks = EmptyBag

Init ==
  /\ fn = "none" /\ pc = "idle" /\ params = None /\ service = "responsive"
  /\ payload = None /\ operation = None /\ url = None /\ videoObject = None
  /\ res = None
  /\ responses = <<>> /\ calls = <<>>
  /\ cause = None /\ thrown = None /\ result = None
  /\ AppAtRest

(***************************************************************************)
(* generateVideo                                                           *)
(***************************************************************************)
\* lines 90-187: the caller calls; the payload is built and submitted, or
\* the validation error is thrown
CallGenerateVideo(p, svc) ==
  /\ pc \in {"idle"} \cup Settled
  /\ fn' = "generateVideo" /\ params' = Some(p) /\ service' = svc
  /\ operation' = None /\ url' = None /\ videoObject' = None /\ res' = None
  /\ responses' = <<>> /\ result' = None
  /\ IF MissingInputVideo(p)
     THEN LET e == Error("An input video object is required to extend a video.")
          IN /\ payload' = None /\ calls' = <<>>
             /\ cause' = Some(e) /\ thrown' = Some(VideoFailure(e))
             /\ pc' = "thrown"
     ELSE /\ payload' = Some(BuildPayload(p))
          /\ calls' = Issue(<<>>, "generateVideos")
          /\ cause' = None /\ thrown' = None
          /\ pc' = "awaitSubmit"
  /\ UNCHANGED appVars

\* a failure e raised while the function runs after the submission
VideoFails(e, log) ==
  /\ calls' = log
  /\ cause' = Some(e) /\ thrown' = Some(VideoFailure(e))
  /\ pc' = AfterFailure("generateVideo")
  /\ UNCHANGED <<url, videoObject, result>>

\* lines 188-216: an operation status arrived (from the submission or from
\* a re-fetch); the loop test, and after the loop the inspection of the
\* result and the start of the binary fetch
OperationArrives(op) ==
  LET log == SetOutcome(calls, IF op.done THEN "done" ELSE "not-done")
  IN /\ operation' = Some(op)
     /\ responses' = IF Len(responses) <= MaxPolls
                     THEN Append(responses, op) ELSE responses
     /\ IF LoopContinues(op)
        THEN /\ pc' = "sleep"
             /\ calls' = log
             /\ UNCHANGED <<url, videoObject, res, cause, thrown, result>>
        ELSE LET r == Inspect(op)
             IN IF IsSome(r.throw)
                THEN VideoFails(Get(r.throw), log) /\ UNCHANGED res
                ELSE /\ url' = r.url /\ videoObject' = r.video /\ res' = None
                     /\ calls' = Issue(log, "fetch")
                     /\ pc' = "awaitFetch"
                     /\ UNCHANGED <<cause, thrown, result>>
     /\ UNCHANGED <<fn, params, service, payload>>

\* the statuses the service may answer with now
Answers ==
  IF service = "silent" THEN {NotDoneOperation}
  ELSE {op \in Operations : op.done \/ Refetches < MaxPolls}

RemoteRejects(e) ==
  /\ service = "responsive"
  /\ VideoFails(e, SetOutcome(calls, "rejected"))
  /\ UNCHANGED <<fn, params, service, payload, operation, res, responses>>

\* line 187: await ai.models.generateVideos(...)
SubmitResolves(op) ==
  /\ fn = "generateVideo" /\ pc = "awaitSubmit"
  /\ op \in Answers
  /\ OperationArrives(op)
  /\ UNCHANGED appVars

SubmitRejects(e) ==
  /\ fn = "generateVideo" /\ pc = "awaitSubmit"
  /\ RemoteRejects(e)
  /\ UNCHANGED appVars

\* line 191-193: the 10 s timer fires and the status is re-fetched.  The log
\* is not grown past MaxPolls re-fetches (a silent service is polled forever).
TimerFires ==
  /\ fn = "generateVideo" /\ pc = "sleep"
  /\ service = "silent" \/ Refetches < MaxPolls
  /\ calls' = IF Refetches < MaxPolls
              THEN Issue(calls, "getVideosOperation") ELSE calls
  /\ pc' = "awaitPoll"
  /\ UNCHANGED <<fn, params, service, payload, operation, url, videoObject, res,
                 responses, cause, thrown, result>>
  /\ UNCHANGED appVars

\* line 193: await ai.operations.getVideosOperation(...)
PollResolves(op) ==
  /\ fn = "generateVideo" /\ pc = "awaitPoll"
  /\ op \in Answers
  /\ OperationArrives(op)
  /\ UNCHANGED appVars

PollRejects(e) ==
  /\ fn = "generateVideo" /\ pc = "awaitPoll"
  /\ RemoteRejects(e)
  /\ UNCHANGED appVars

\* lines 213-219: await fetch(...); a response that is not ok is an error,
\* otherwise the body is read
FetchResolves(r) ==
  /\ fn = "generateVideo" /\ pc = "awaitFetch"
  /\ res' = Some(r)
  /\ IF ~r.ok
     THEN VideoFails(Error(FetchFailedMessage(r)), SetOutcome(calls, "not-ok"))
     ELSE /\ calls' = Issue(SetOutcome(calls, "ok"), "blob")
          /\ pc' = "awaitBlob"
          /\ UNCHANGED <<url, videoObject, cause, thrown, result>>
  /\ UNCHANGED <<fn, params, service, payload, operation, responses>>
  /\ UNCHANGED appVars

FetchRejects(e) ==
  /\ fn = "generateVideo" /\ pc = "awaitFetch"
  /\ RemoteRejects(e)
  /\ UNCHANGED appVars

\* lines 219-222: await res.blob(); the object URL is created and the
\* handle returned
BlobResolves ==
  /\ fn = "generateVideo" /\ pc = "awaitBlob"
  /\ LET videoBlob == [type |-> Get(videoObject).mimeType,
                       source |-> FetchUrl(Get(url))]
     IN result' = Some([ objectUrl |-> "blob:" \o videoBlob.source,
                         blob |-> videoBlob,
                         uri |-> Get(url),
                         video |-> Get(videoObject) ])
  /\ calls' = SetOutcome(calls, "ok")
  /\ pc' = "returned"
  /\ UNCHANGED <<fn, params, service, payload, operation, url, videoObject, res,
                 responses, cause, thrown>>
  /\ UNCHANGED appVars

BlobRejects(e) ==
  /\ fn = "generateVideo" /\ pc = "awaitBlob"
  /\ RemoteRejects(e)
  /\ UNCHANGED appVars

(***************************************************************************)
(* generateAudio                                                           *)
(***************************************************************************)
NoVideoState ==
  /\ payload' = None /\ operation' = None /\ url' = None
  /\ videoObject' = None /\ res' = None /\ responses' = <<>>

\* lines 50-69: the caller calls; the speech request is issued
CallGenerateAudio(p) ==
  /\ pc \in {"idle"} \cup Settled
  /\ fn' = "generateAudio" /\ params' = Some(p) /\ service' = "responsive"
  /\ NoVideoState
  /\ calls' = Issue(<<>>, "generateContent")
  /\ cause' = None /\ thrown' = None /\ result' = None
  /\ pc' = "awaitAudio"
  /\ UNCHANGED appVars

\* a failure e raised inside the try block of generateAudio
AudioFails(e, log) ==
  /\ calls' = log
  /\ cause' = Some(e) /\ thrown' = Some(AudioFailure(e))
  /\ pc' = AfterFailure("generateAudio")
  /\ UNCHANGED result

\* !base64Audio || !mimeType
NoAudioData(inlineData) ==
  \/ inlineData = None
  \/ Get(inlineData).data = None \/ Get(Get(inlineData).data) = ""
  \/ Get(inlineData).mimeType = None \/ Get(Get(inlineData).mimeType) = ""

\* lines 71-80
AudioResolves(inlineData) ==
  /\ fn = "generateAudio" /\ pc = "awaitAudio"
  /\ IF NoAudioData(inlineData)
     THEN AudioFails(Error("Audio data not found in the API response."),
                     SetOutcome(calls, "ok"))
     ELSE /\ result' = Some([objectUrl |->
                 AudioObjectUrl(Get(Get(inlineData).mimeType),
                                Get(Get(inlineData).data))])
          /\ calls' = SetOutcome(calls, "ok")
          /\ pc' = "returned"
          /\ UNCHANGED <<cause, thrown>>
  /\ UNCHANGED <<fn, params, service, payload, operation, url, videoObject, res,
                 responses>>
  /\ UNCHANGED appVars

\* lines 81-86: the request rejected
AudioRejects(e) ==
  /\ fn = "generateAudio" /\ pc = "awaitAudio"
  /\ AudioFails(e, SetOutcome(calls, "rejected"))
  /\ UNCHANGED <<fn, params, service, payload, operation, url, videoObject, res,
                 responses>>
  /\ UNCHANGED appVars

(***************************************************************************)
(* enhancePrompt                                                           *)
(***************************************************************************)
\* lines 18-34: the caller calls; a blank prompt is refused, otherwise the
\* text request is issued
CallEnhancePrompt(prompt) ==
  /\ pc \in {"idle"} \cup Settled
  /\ fn' = "enhancePrompt" /\ params' = Some([prompt |-> prompt])
  /\ service' = "responsive"
  /\ NoVideoState
  /\ result' = None
  /\ IF PromptIsBlank(prompt)
     THEN LET e == Error("Prompt cannot be empty.")
          IN /\ calls' = <<>>
             /\ cause' = Some(e) /\ thrown' = Some(e)
             /\ pc' = "thrown"
     ELSE /\ calls' = Issue(<<>>, "generateContent")
          /\ cause' = None /\ thrown' = None
          /\ pc' = "awaitEnhance"
  /\ UNCHANGED appVars

\* a failure e raised inside the try block of enhancePrompt
EnhanceFails(e, log) ==
  /\ calls' = log
  /\ cause' = Some(e) /\ thrown' = Some(EnhanceFailure(e))
  /\ pc' = AfterFailure("enhancePrompt")
  /\ UNCHANGED result

\* lines 36-41: response.text.trim(); reading trim of an absent text throws
\* a TypeError
EnhanceResolves(text) ==
  /\ fn = "enhancePrompt" /\ pc = "awaitEnhance"
  /\ IF text = None
     THEN EnhanceFails(
            Error("Cannot read properties of undefined (reading 'trim')"),
            SetOutcome(calls, "ok"))
     ELSE LET enhancedPrompt == Trim(Get(text))
          IN IF enhancedPrompt = ""
             THEN EnhanceFails(Error("The model returned an empty enhancement."),
                               SetOutcome(calls, "ok"))
             ELSE /\ result' = Some([text |-> enhancedPrompt])
                  /\ calls' = SetOutcome(calls, "ok")
                  /\ pc' = "returned"
                  /\ UNCHANGED <<cause, thrown>>
  /\ UNCHANGED <<fn, params, service, payload, operation, url, videoObject, res,
                 responses>>
  /\ UNCHANGED appVars

\* lines 42-47: the request rejected
EnhanceRejects(e) ==
  /\ fn = "enhancePrompt" /\ pc = "awaitEnhance"
  /\ EnhanceFails(e, SetOutcome(calls, "rejected"))
  /\ UNCHANGED <<fn, params, service, payload, operation, url, videoObject, res,
                 responses>>
  /\ UNCHANGED appVars

(***************************************************************************)
(* Specifications.                                                         *)
(***************************************************************************)
VideoStep ==
  \/ \E op \in Operations : SubmitResolves(op)
  \/ \E e \in RejectValues : SubmitRejects(e)
  \/ TimerFires
  \/ \E op \in Operations : PollResolves(op)
  \/ \E e \in RejectValues : PollRejects(e)
  \/ \E r \in FetchResponses : FetchResolves(r)
  \/ \E e \in RejectValues : FetchRejects(e)
  \/ BlobResolves
  \/ \E e \in RejectValues : BlobRejects(e)

Next ==
  \/ \E p \in VideoRequests, svc \in ServiceModes : CallGenerateVideo(p, svc)
  \/ VideoStep
  \/ \E p \in AudioRequests : CallGenerateAudio(p)
  \/ \E r \in AudioResponses : AudioResolves(r)
  \/ \E e \in RejectValues : AudioRejects(e)
  \/ \E p \in EnhancePrompts : CallEnhancePrompt(p)
  \/ \E t \in EnhanceResponses : EnhanceResolves(t)
  \/ \E e \in RejectValues : EnhanceRejects(e)

Spec == Init /\ [][Next]_vars

\* Every awaited timer and remote call settles: the timer always fires, and
\* the service (silent or not) answers each status request.
LiveSpec == Spec /\ WF_vars(VideoStep)

\* The normalisation of the request alone: the request is any combination
\* of fields, generateVideo is called with it, the submission may reject.
NormInit ==
  /\ fn = "none" /\ pc = "idle" /\ service = "responsive"
  /\ params \in {Some(p) : p \in AllVideoRequests}
  /\ payload = None /\ operation = None /\ url = None /\ videoObject = None
  /\ res = None
  /\ responses = <<>> /\ calls = <<>>
  /\ cause = None /\ thrown = None /\ result = None
  /\ AppAtRest

NormCall ==
  /\ pc = "idle"
  /\ CallGenerateVideo(Get(params), "responsive")

NormNext ==
  \/ NormCall
  \/ \E e \in RejectValues : SubmitRejects(e)

NormSpec == NormInit /\ [][NormNext]_vars

(***************************************************************************)
(* Properties.                                                             *)
(***************************************************************************)
Last(seq) == seq[Len(seq)]
IsVideo == fn = "generateVideo"
FailedOutcomes == {"rejected", "not-ok"}
HasFailedCall == \E i \in 1..Len(calls) : calls[i].outcome \in FailedOutcomes

\* C1 as stated: a failure of generateVideo raised after the submission was
\* issued reaches the caller as an Error whose message is
\* 'Failed to generate video: ' followed by the original message.
C1_WrappedWithPrefix ==
  (IsVideo /\ pc = "thrown" /\ Len(calls) > 0) =>
    /\ Get(thrown).isError
    /\ Get(thrown).message = "Failed to generate video: " \o Get(cause).message

\* C1 amended: a failure of generateVideo raised during submission, polling,
\* result inspection or binary fetch reaches the caller unchanged: the
\* promise rejects with the original failure itself, its message verbatim
\* and without the 'Failed to generate video: ' prefix.
C1_PropagatedUnchanged ==
  (IsVideo /\ pc = "thrown" /\ Len(calls) > 0) =>
    /\ thrown = cause
    /\ ~Includes(Get(thrown).message, "Failed to generate video: ")

C1_Witness ==
  /\ IsVideo /\ pc = "thrown"
  /\ CountOf(calls, "getVideosOperation") = 1
  /\ Last(calls) = [api |-> "getVideosOperation", outcome |-> "rejected"]
  /\ Get(thrown).message = "Requested entity was not found."

\* the number of not-done statuses received
NotDoneCount == Cardinality({i \in 1..Len(responses) : ~responses[i].done})

\* C2: generateVideo submits once; after n not-done statuses followed by a
\* done status it has issued exactly n re-fetches, one after each not-done
\* status (the re-fetch of the latest one is issued when its timer fires),
\* none after the done status, and the video it returns is the first video
\* of the final status.
C2_OneSubmitOneRefetchPerNotDone ==
  (IsVideo /\ service = "responsive" /\ Len(calls) > 0) =>
    /\ calls[1].api = "generateVideos"
    /\ CountOf(calls, "generateVideos") = 1
    /\ Refetches = NotDoneCount - (IF pc = "sleep" THEN 1 ELSE 0)
    /\ \A i \in 1..Len(responses) :
         /\ i < Len(responses) => ~responses[i].done
         /\ (~responses[i].done /\ i < Len(calls)) =>
              calls[i + 1].api = "getVideosOperation"
    /\ pc = "returned" =>
         /\ Last(responses).done
         /\ Refetches = Len(responses) - 1
         /\ Get(result).video =
              Get(Get(Get(Last(responses).response).generatedVideos)[1].video)

C2_Witness ==
  /\ IsVideo /\ pc = "returned"
  /\ Len(responses) = 3
  /\ ~responses[1].done /\ ~responses[2].done /\ responses[3].done
  /\ Refetches = 2

InLoop == {"awaitSubmit", "sleep", "awaitPoll"}

\* C3: the polling loop of generateVideo is left only by a step in which the
\* operation reports done or a remote call rejects; with a service that
\* eventually reports done or rejects the call eventually settles; with a
\* service that never does, the call never settles.
C3_LoopEndsOnlyOnDoneOrReject ==
  /\ [][ (IsVideo /\ pc \in InLoop /\ pc' \notin InLoop) =>
           \/ (IsSome(operation') /\ Get(operation').done)
           \/ (pc' = "thrown" /\ Last(calls').outcome = "rejected") ]_vars
  /\ (IsVideo /\ service = "responsive" /\ pc \notin Settled) ~> (pc \in Settled)
  /\ [](IsVideo /\ service = "silent" /\ Len(calls) > 0 => pc \in InLoop)

C3_Witness ==
  /\ IsVideo /\ service = "silent" /\ pc = "awaitPoll"
  /\ Refetches = MaxPolls /\ Len(responses) = MaxPolls + 1

\* C4: no remote call is issued after a failed one and a failure ends the
\* invocation with the caller's promise rejected; generateAudio and
\* enhancePrompt issue at most one remote call.
C4_NoRetry ==
  /\ \A i \in 1..(Len(calls) - 1) : calls[i].outcome \notin FailedOutcomes \cup {"pending"}
  /\ (HasFailedCall \/ IsSome(cause)) =>
       /\ pc = "thrown" /\ IsSome(thrown)
       /\ \A i \in 1..Len(calls) : calls[i].outcome # "pending"
  /\ fn \in {"generateAudio", "enhancePrompt"} =>
       /\ Len(calls) <= 1
       /\ \A i \in 1..Len(calls) : calls[i].api = "generateContent"

C4_Witness ==
  /\ IsVideo /\ pc = "thrown"
  /\ Len(calls) = 3
  /\ Last(calls) = [api |-> "fetch", outcome |-> "rejected"]

\* C5: a generateVideo request with mode EXTEND_VIDEO and no input video
\* object fails with the validation error and no remote call is made.
C5_ExtendWithoutInputFailsFirst ==
  (IsVideo /\ Get(params).mode = EXTEND_VIDEO
           /\ Get(params).inputVideoObject = None) =>
    /\ pc = "thrown"
    /\ calls = <<>>
    /\ thrown = Some(Error("An input video object is required to extend a video."))

C5_Witness ==
  /\ IsVideo /\ Get(params).mode = EXTEND_VIDEO
  /\ Get(params).inputVideoObject = None
  /\ pc = "thrown" /\ calls = <<>>

\* a string that is empty or made of whitespace only
AllWhitespace(str) ==
  \A i \in 1..Len(str) : SubSeq(str, i, i) \in {" ", "\t", "\n"}

\* C6: enhancePrompt with an empty or whitespace-only prompt fails with no
\* remote call; with any other prompt exactly one text-generation request is
\* issued.
C6_BlankPromptFailsFirst ==
  fn = "enhancePrompt" =>
    IF AllWhitespace(Get(params).prompt)
    THEN /\ pc = "thrown" /\ calls = <<>>
         /\ thrown = Some(Error("Prompt cannot be empty."))
    ELSE /\ Len(calls) = 1
         /\ calls[1].api = "generateContent"

C6_Witness ==
  /\ fn = "enhancePrompt" /\ Get(params).prompt = "   "
  /\ pc = "thrown" /\ calls = <<>>

\* the finished operation the inspection has run on
FinishedOperation == IsVideo /\ IsSome(operation) /\ Get(operation).done

\* the list of generated videos of the finished operation: <<>> when the
\* operation has no response or the response no list
GeneratedVideos ==
  IF Get(operation).response = None THEN <<>>
  ELSE IF Get(Get(operation).response).generatedVideos = None THEN <<>>
  ELSE Get(Get(Get(operation).response).generatedVideos)

\* C7: when the operation is done with zero generated videos, generateVideo
\* fails with the no-videos error ('No videos were generated.' when the
\* response has no list or an empty one, 'No videos generated.' when the
\* operation has no response) and no binary fetch is made.
C7_NoVideosFails ==
  (FinishedOperation /\ Len(GeneratedVideos) = 0) =>
    /\ pc = "thrown"
    /\ Get(thrown).message =
         IF Get(operation).response = None THEN "No videos generated."
         ELSE "No videos were generated."
    /\ CountOf(calls, "fetch") = 0
    /\ result = None

C7_Witness ==
  /\ IsVideo /\ pc = "thrown" /\ Refetches = 1
  /\ operation = Some([done |-> TRUE,
                       response |-> Some([generatedVideos |-> Some(<<>>)])])
  /\ Get(thrown).message = "No videos were generated."

\* the first generated video has no usable uri
FirstVideoLacksUri ==
  LET first == GeneratedVideos[1]
  IN \/ first.video = None
     \/ Get(first.video).uri \in {None, Some("")}

\* C8: when the operation is done and its first generated video lacks a URI,
\* generateVideo fails with the missing-URI error and no binary fetch is
\* made.
C8_MissingUriFails ==
  (FinishedOperation /\ Len(GeneratedVideos) > 0 /\ FirstVideoLacksUri) =>
    /\ pc = "thrown"
    /\ Get(thrown).message = "Generated video is missing a URI."
    /\ CountOf(calls, "fetch") = 0
    /\ result = None

C8_Witness ==
  /\ IsVideo /\ pc = "thrown"
  /\ FinishedOperation /\ Len(GeneratedVideos) = 1
  /\ GeneratedVideos[1].video = Some(Video(Some(""), "video/mp4"))
  /\ Get(thrown).message = "Generated video is missing a URI."

\* C9: when the binary fetch answers with a response that is not ok,
\* generateVideo fails with a message that contains the numeric status and
\* the status text of that response, and no handle is produced.
C9_FetchStatusInMessage ==
  (IsVideo /\ IsSome(res) /\ ~Get(res).ok) =>
    /\ pc = "thrown"
    /\ Includes(Get(thrown).message, ToString(Get(res).status))
    /\ Includes(Get(thrown).message, Get(res).statusText)
    /\ result = None
    /\ CountOf(calls, "blob") = 0

C9_Witness ==
  /\ IsVideo /\ pc = "thrown"
  /\ IsSome(res) /\ Get(res).status = 404
  /\ Get(thrown).message = "Failed to fetch video: 404 Not Found"

\* the fixed prefix of the wrapper of each function
WrapperPrefix ==
  IF fn = "generateAudio" THEN "Failed to generate audio: "
  ELSE "Failed to enhance prompt: "

\* C10: a failure of generateAudio or enhancePrompt raised after the remote
\* request was started reaches the caller as the fixed prefix followed by the
\* original diagnostic text, whatever value was thrown.
C10_DiagnosticKept ==
  (fn \in {"generateAudio", "enhancePrompt"} /\ pc = "thrown" /\ Len(calls) > 0) =>
    Get(thrown).message = WrapperPrefix \o Get(cause).message

\* the payload of a submitted generateVideo request
Submitted == IsVideo /\ IsSome(payload)

\* C11: the config of a submitted payload has the aspect ratio of the
\* request when the mode is not EXTEND_VIDEO, and no aspect ratio when the
\* mode is EXTEND_VIDEO.
C11_AspectRatioUnlessExtend ==
  Submitted =>
    IF Get(params).mode = EXTEND_VIDEO
    THEN Get(payload).config.aspectRatio = None
    ELSE Get(payload).config.aspectRatio = Some(Get(params).aspectRatio)

C11_Witness ==
  /\ Submitted /\ Get(params).mode = EXTEND_VIDEO
  /\ Get(params).aspectRatio = "9:16"
  /\ Get(payload).config.aspectRatio = None
  /\ Len(calls) = 1

\* the image a frame is sent as
SentFrame(frame) ==
  [imageBytes |-> frame.base64, mimeType |-> frame.file.type]

\* C12: for a FRAMES_TO_VIDEO request with isLooping, the lastFrame of the
\* submitted payload is the start frame (absent when there is none),
\* whatever end frame the caller supplied.
C12_LoopingEndIsStart ==
  (Submitted /\ Get(params).mode = FRAMES_TO_VIDEO /\ Get(params).isLooping) =>
    /\ Get(payload).config.lastFrame = Get(payload).image
    /\ Get(payload).config.lastFrame =
         IF Get(params).startFrame = None THEN None
         ELSE Some(SentFrame(Get(Get(params).startFrame)))

C12_Witness ==
  /\ Submitted /\ Get(params).mode = FRAMES_TO_VIDEO /\ Get(params).isLooping
  /\ Get(params).startFrame = Some(ImgA) /\ Get(params).endFrame = Some(ImgB)
  /\ Get(payload).config.lastFrame = Some(SentFrame(ImgA))

\* C13: for a FRAMES_TO_VIDEO request without isLooping and with an end
\* frame, the lastFrame of the submitted payload is that end frame, with or
\* without a start frame.
C13_SuppliedEndIsKept ==
  (Submitted /\ Get(params).mode = FRAMES_TO_VIDEO /\ ~Get(params).isLooping
             /\ Get(params).endFrame # None) =>
    Get(payload).config.lastFrame = Some(SentFrame(Get(Get(params).endFrame)))

C13_Witness ==
  /\ Submitted /\ Get(params).mode = FRAMES_TO_VIDEO /\ ~Get(params).isLooping
  /\ Get(params).startFrame = None /\ Get(params).endFrame = Some(ImgB)
  /\ Get(payload).config.lastFrame = Some(SentFrame(ImgB))

\* the reference images and the style image of the request
SuppliedReferences ==
  IF Get(params).referenceImages = None THEN <<>>
  ELSE Get(Get(params).referenceImages)
StyleCount == IF Get(params).styleImage = None THEN 0 ELSE 1

\* the reference list of the payload, <<>> when none is attached
SentReferences ==
  IF Get(payload).config.referenceImages = None THEN <<>>
  ELSE Get(Get(payload).config.referenceImages)

\* C14: for a REFERENCES_TO_VIDEO request the reference list has one ASSET
\* entry per reference image, in input order, then one STYLE entry exactly
\* when a style image is supplied; it is attached only when it is not empty.
C14_ReferencesInOrderStyleLast ==
  (Submitted /\ Get(params).mode = REFERENCES_TO_VIDEO) =>
    /\ Len(SentReferences) = Len(SuppliedReferences) + StyleCount
    /\ \A i \in 1..Len(SuppliedReferences) :
         SentReferences[i] = [image |-> SentFrame(SuppliedReferences[i]),
                              referenceType |-> "ASSET"]
    /\ StyleCount = 1 =>
         SentReferences[Len(SentReferences)] =
           [image |-> SentFrame(Get(Get(params).styleImage)),
            referenceType |-> "STYLE"]
    /\ Get(payload).config.referenceImages # Some(<<>>)

C14_Witness ==
  /\ Submitted /\ Get(params).mode = REFERENCES_TO_VIDEO
  /\ Get(params).referenceImages = Some(<<ImgB, ImgA>>)
  /\ Get(params).styleImage = Some(ImgC)
  /\ Len(SentReferences) = 3
  /\ SentReferences[3].referenceType = "STYLE"

\* C15: the submitted payload has a prompt exactly when the prompt of the
\* request is not the empty string, and then it is that prompt; in every
\* mode.
C15_PromptOnlyIfNonEmpty ==
  Submitted =>
    /\ (Get(payload).prompt # None) <=> (Get(params).prompt # "")
    /\ Get(payload).prompt # Some("")
    /\ Get(payload).prompt # None => Get(payload).prompt = Some(Get(params).prompt)

C15_Witness ==
  /\ Submitted /\ Get(params).mode = REFERENCES_TO_VIDEO
  /\ Get(params).prompt = "" /\ Get(payload).prompt = None
  /\ Len(calls) = 1

(***************************************************************************)
(* The App component (App.tsx): what generateVideo and generateAudio can   *)
(* settle with, as the handlers see it.                                    *)
(***************************************************************************)
\* most async handlers suspended at once
MaxTasks == 2

\* the handle generateVideo returns for a fetched video (lines 209-222 of
\* the service)
VideoHandle(video) ==
  LET u == Get(DecodeURIComponent(Get(video.uri)))
      videoBlob == [type |-> video.mimeType, source |-> FetchUrl(u)]
  IN [ objectUrl |-> "blob:" \o videoBlob.source, blob |-> videoBlob,
       uri |-> u, video |-> video ]

AppVideoResults == {VideoHandle(V1)}

\* failures raised inside generateVideo; it delivers them as VideoFailure
AppVideoCauses ==
  { Error("Requested entity was not found."),
    Error("Permission denied on resource project."),
    Error("The entity was not found."),
    NonError("quota exceeded") }

AppVideoFailures == {VideoFailure(e) : e \in AppVideoCauses}

AppAudioResults == {[objectUrl |-> AudioObjectUrl("audio/L16", "UklGRg")]}

AppAudioFailures ==
  {AudioFailure(Error("Audio data not found in the API response."))}

\* what the forms submit
P720 == "720p"
P1080 == "1080p"
TextRequest(resolution) ==
  [ VideoParams(TEXT_TO_VIDEO, "a cat", None, None, FALSE, None, None, None)
      EXCEPT !.resolution = resolution ]
AppVideoRequests == {TextRequest(P720), TextRequest(P1080)}
AppAudioRequests == {[prompt |-> "hello", voice |-> "Zephyr"]}

(***************************************************************************)
(* handleGenerateVideo, lines 103-125: the message shown and whether the   *)
(* API key dialog is opened.                                               *)
(***************************************************************************)
UpperCase ==
  <<"A", "B", "C", "D", "E", "F", "G", "H", "I", "J", "K", "L", "M",
    "N", "O", "P", "Q", "R", "S", "T", "U", "V", "W", "X", "Y", "Z">>
LowerCase ==
  <<"a", "b", "c", "d", "e", "f", "g", "h", "i", "j", "k", "l", "m",
    "n", "o", "p", "q", "r", "s", "t", "u", "v", "w", "x", "y", "z">>

LowerOf(c) ==
  IF \E i \in 1..Len(UpperCase) : UpperCase[i] = c
  THEN LowerCase[CHOOSE i \in 1..Len(UpperCase) : UpperCase[i] = c]
  ELSE c

\* String.prototype.toLowerCase
RECURSIVE ToLowerCase(_)
ToLowerCase(str) ==
  IF Len(str) = 0 THEN str
  ELSE LowerOf(Head(str)) \o ToLowerCase(Tail(str))

\* line 112
ModelNotFound(msg) == Includes(msg, "Requested entity was not found.")

\* variant: 'permission denied' is searched without lowering the message
KeyInvalidCaseSensitive(msg) ==
  \/ Includes(msg, "API_KEY_INVALID")
  \/ Includes(msg, "API key not valid")
  \/ Includes(msg, "permission denied")

\* lines 117-119
KeyInvalid(msg) ==
  \/ Includes(msg, "API_KEY_INVALID")
  \/ Includes(msg, "API key not valid")
  \/ Includes(ToLowerCase(msg), "permission denied")

\* shouldOpenDialog
ShouldOpenDialog(msg) == ModelNotFound(msg) \/ KeyInvalid(msg)

\* userFriendlyMessage
UserFriendlyMessage(msg) ==
  IF ModelNotFound(msg)
  THEN "Model not found. This can be caused by an invalid API key or permission issues. Please check your API key."
  ELSE IF KeyInvalid(msg)
  THEN "Your API key is invalid or lacks permissions. Please select a valid, billing-enabled API key."
  ELSE "Video generation failed: " \o msg

\* line 168
AudioErrorMessage(e) == "Audio generation failed: " \o MessageOf(e)

(***************************************************************************)
(* Suspended handlers.                                                     *)
(***************************************************************************)
Task(handler, at, p, closure) ==
  [handler |-> handler, await |-> at, params |-> p, closure |-> closure]

\* the suspended handlers form a bag: two of them can be alike
One(t) == SetToBag({t})

Awaiting(t, handler, at) ==
  /\ t \in BagToSet(tasks)
  /\ t.handler = handler /\ t.await = at

\* what a render of handleApiKeyDialogContinue closes over, as lines 186
\* and 189 read it: the last config of a workflow that is in ERROR
Closure ==
  [ lastConfig |-> IF appState = ERROR THEN lastConfig ELSE None,
    lastAudioConfig |->
      IF audioAppState = ERROR THEN lastAudioConfig ELSE None ]

\* the controls of the page can be used
PageEnabled == ~(showApiKeyDialog /\ dialogModal)

\* handleGenerateVideo(p) as far as its first await, lines 74-98: with
\* window.aistudio it stops at hasSelectedApiKey, without it the state is
\* set and generateVideo is called
VideoTask(p) ==
  Task("handleGenerateVideo",
       IF aistudio THEN "hasSelectedApiKey" ELSE "generateVideo", Some(p), None)

\* lines 92-95
VideoBegins(p) ==
  /\ appState' = LOADING
  /\ errorMessage' = None
  /\ lastConfig' = Some(p)
  /\ initialFormValues' = None
  /\ UNCHANGED <<videoUrl, lastVideoObject, lastVideoBlob, videoUrlFrom>>

VideoCalled(p) == IF aistudio THEN UNCHANGED videoVars ELSE VideoBegins(p)

\* handleGenerateAudio(p) as far as its first await, lines 138-161
AudioTask(p) ==
  Task("handleGenerateAudio",
       IF aistudio THEN "hasSelectedApiKey" ELSE "generateAudio", Some(p), None)

\* lines 156-158
AudioBegins(p) ==
  /\ audioAppState' = LOADING
  /\ audioErrorMessage' = None
  /\ lastAudioConfig' = Some(p)
  /\ UNCHANGED audioUrl

AudioCalled(p) == IF aistudio THEN UNCHANGED audioVars ELSE AudioBegins(p)

(***************************************************************************)
(* The handlers of App, one action per run of JavaScript between awaits.   *)
(***************************************************************************)
KeyCheckOutcomes == {"true", "false", "rejected"}

\* a step that is not the failure of a video generation
Other == Event("other", None, FALSE)

\* variant: a key check that rejects counts as a selected key
KeyCheckPassesOnReject(outcome) == outcome # "false"

\* lines 78 and 142: the handler goes on when hasSelectedApiKey resolved
\* true; false and a rejection both take it to the dialog
KeyCheckPasses(outcome) == outcome = "true"

\* what hasSelectedApiKey told a generation handler
KeyCheckEvent(outcome) ==
  IF outcome = "true" THEN Other ELSE Event("keyAbsent", None, TRUE)

\* the service is not running while the App is observed
CoreIdle ==
  /\ fn = "none" /\ pc = "idle" /\ params = None /\ service = "responsive"
  /\ payload = None /\ operation = None /\ url = None /\ videoObject = None
  /\ res = None
  /\ responses = <<>> /\ calls = <<>>
  /\ cause = None /\ thrown = None /\ result = None

\* the mount effect, lines 55-72, as far as its await
AppInit ==
  /\ CoreIdle
  /\ aistudio \in BOOLEAN /\ dialogModal \in BOOLEAN
  /\ AppMounted
  /\ tasks = IF aistudio
             THEN One(Task("checkApiKey", "hasSelectedApiKey", None, None))
             ELSE EmptyBag

\* checkApiKey after its await, lines 59-68
MountKeyCheckSettles(t, outcome) ==
  /\ Awaiting(t, "checkApiKey", "hasSelectedApiKey")
  /\ tasks' = tasks (-) One(t)
  /\ showApiKeyDialog' = IF outcome = "true" THEN showApiKeyDialog ELSE TRUE
  /\ event' = Other
  /\ UNCHANGED <<envVars, videoVars, audioVars, activeTool, vars>>

\* the video form calls onGenerate, lines 288-291 and 74-98
SubmitVideoForm(p) ==
  /\ PageEnabled /\ activeTool = "video" /\ appState = IDLE
  /\ BagCardinality(tasks) < MaxTasks
  /\ tasks' = tasks (+) One(VideoTask(p))
  /\ VideoCalled(p)
  /\ event' = Other
  /\ UNCHANGED <<envVars, audioVars, activeTool, showApiKeyDialog, vars>>

\* handleGenerateVideo after hasSelectedApiKey, lines 78-98
VideoKeyCheckSettles(t, outcome) ==
  /\ Awaiting(t, "handleGenerateVideo", "hasSelectedApiKey")
  /\ IF KeyCheckPasses(outcome)
     THEN /\ tasks' = (tasks (-) One(t)) (+) One([t EXCEPT !.await = "generateVideo"])
          /\ VideoBegins(Get(t.params))
          /\ UNCHANGED showApiKeyDialog
     ELSE /\ tasks' = tasks (-) One(t)
          /\ showApiKeyDialog' = TRUE
          /\ UNCHANGED videoVars
  /\ event' = KeyCheckEvent(outcome)
  /\ UNCHANGED <<envVars, audioVars, activeTool, vars>>

\* handleGenerateVideo after generateVideo resolved, lines 98-102
GenerateVideoResolves(t, r) ==
  /\ Awaiting(t, "handleGenerateVideo", "generateVideo")
  /\ tasks' = tasks (-) One(t)
  /\ videoUrl' = Some(r.objectUrl)
  /\ lastVideoBlob' = Some(r.blob)
  /\ lastVideoObject' = Some(r.video)
  /\ appState' = SUCCESS
  /\ videoUrlFrom' = t.params
  /\ event' = Other
  /\ UNCHANGED <<errorMessage, lastConfig, initialFormValues>>
  /\ UNCHANGED <<envVars, audioVars, activeTool, showApiKeyDialog, vars>>

\* handleGenerateVideo after generateVideo rejected, lines 103-133
GenerateVideoRejects(t, e) ==
  /\ Awaiting(t, "handleGenerateVideo", "generateVideo")
  /\ tasks' = tasks (-) One(t)
  /\ errorMessage' = Some(UserFriendlyMessage(MessageOf(e)))
  /\ appState' = ERROR
  /\ showApiKeyDialog' =
       IF ShouldOpenDialog(MessageOf(e)) THEN TRUE ELSE showApiKeyDialog
  /\ event' = Event("videoRejected", Some(e), ShouldOpenDialog(MessageOf(e)))
  /\ UNCHANGED <<videoUrl, lastConfig, lastVideoObject, lastVideoBlob,
                 initialFormValues, videoUrlFrom>>
  /\ UNCHANGED <<envVars, audioVars, activeTool, vars>>

\* the audio form calls onGenerate, lines 325 and 138-161
SubmitAudioForm(p) ==
  /\ PageEnabled /\ activeTool = "audio" /\ audioAppState = IDLE
  /\ BagCardinality(tasks) < MaxTasks
  /\ tasks' = tasks (+) One(AudioTask(p))
  /\ AudioCalled(p)
  /\ event' = Other
  /\ UNCHANGED <<envVars, videoVars, activeTool, showApiKeyDialog, vars>>

\* handleGenerateAudio after hasSelectedApiKey, lines 142-161
AudioKeyCheckSettles(t, outcome) ==
  /\ Awaiting(t, "handleGenerateAudio", "hasSelectedApiKey")
  /\ IF KeyCheckPasses(outcome)
     THEN /\ tasks' = (tasks (-) One(t)) (+) One([t EXCEPT !.await = "generateAudio"])
          /\ AudioBegins(Get(t.params))
          /\ UNCHANGED showApiKeyDialog
     ELSE /\ tasks' = tasks (-) One(t)
          /\ showApiKeyDialog' = TRUE
          /\ UNCHANGED audioVars
  /\ event' = KeyCheckEvent(outcome)
  /\ UNCHANGED <<envVars, videoVars, activeTool, vars>>

\* handleGenerateAudio after generateAudio resolved, lines 161-163
GenerateAudioResolves(t, r) ==
  /\ Awaiting(t, "handleGenerateAudio", "generateAudio")
  /\ tasks' = tasks (-) One(t)
  /\ audioUrl' = Some(r.objectUrl)
  /\ audioAppState' = SUCCESS
  /\ event' = Other
  /\ UNCHANGED <<audioErrorMessage, lastAudioConfig>>
  /\ UNCHANGED <<envVars, videoVars, activeTool, showApiKeyDialog, vars>>

\* variant: the failure is written to the message of the video workflow
GenerateAudioRejectsIntoVideo(t, e) ==
  /\ Awaiting(t, "handleGenerateAudio", "generateAudio")
  /\ tasks' = tasks (-) One(t)
  /\ errorMessage' = Some(AudioErrorMessage(e))
  /\ audioErrorMessage' = Some(AudioErrorMessage(e))
  /\ audioAppState' = ERROR
  /\ event' = Other
  /\ UNCHANGED <<audioUrl, lastAudioConfig>>
  /\ UNCHANGED <<appState, videoUrl, lastConfig, lastVideoObject,
                 lastVideoBlob, initialFormValues, videoUrlFrom>>
  /\ UNCHANGED <<envVars, activeTool, showApiKeyDialog, vars>>

\* handleGenerateAudio after generateAudio rejected, lines 164-170
GenerateAudioRejects(t, e) ==
  /\ Awaiting(t, "handleGenerateAudio", "generateAudio")
  /\ tasks' = tasks (-) One(t)
  /\ audioErrorMessage' = Some(AudioErrorMessage(e))
  /\ audioAppState' = ERROR
  /\ event' = Other
  /\ UNCHANGED <<audioUrl, lastAudioConfig>>
  /\ UNCHANGED <<envVars, videoVars, activeTool, showApiKeyDialog, vars>>

\* the result screen is shown, line 299
VideoResultShown ==
  PageEnabled /\ activeTool = "video" /\ appState = SUCCESS /\ IsSome(videoUrl)

\* onRetry, lines 175-179
RetryVideo ==
  /\ VideoResultShown /\ IsSome(lastConfig)
  /\ BagCardinality(tasks) < MaxTasks
  /\ tasks' = tasks (+) One(VideoTask(Get(lastConfig)))
  /\ VideoCalled(Get(lastConfig))
  /\ event' = Other
  /\ UNCHANGED <<envVars, audioVars, activeTool, showApiKeyDialog, vars>>

\* handleNewVideo, lines 194-202
HandleNewVideo ==
  /\ appState' = IDLE
  /\ videoUrl' = None /\ errorMessage' = None /\ lastConfig' = None
  /\ lastVideoObject' = None /\ lastVideoBlob' = None
  /\ initialFormValues' = None
  /\ videoUrlFrom' = None

\* onNewVideo
NewVideo ==
  /\ VideoResultShown
  /\ HandleNewVideo
  /\ event' = Other
  /\ UNCHANGED <<envVars, audioVars, activeTool, showApiKeyDialog, tasks, vars>>

\* canExtend, line 305
CanExtend == IsSome(lastConfig) /\ Get(lastConfig).resolution = P720

\* lines 229-246
ExtendValues ==
  ("inputVideo" :>
     [ file |-> [name |-> "last_video.mp4", type |-> Get(lastVideoBlob).type],
       base64 |-> "" ])
  @@ [ Get(lastConfig) EXCEPT
         !.mode = EXTEND_VIDEO, !.prompt = "",
         !.inputVideoObject = lastVideoObject,
         !.resolution = P720, !.startFrame = None, !.endFrame = None,
         !.referenceImages = Some(<<>>), !.styleImage = None,
         !.isLooping = FALSE ]

\* variant: the workflow stays in SUCCESS when the form is prefilled
ExtendAppStateKept == SUCCESS

\* line 248
ExtendAppState == IDLE

\* handleExtend, lines 226-250
Extend ==
  /\ VideoResultShown /\ CanExtend
  /\ IsSome(lastVideoBlob) /\ IsSome(lastVideoObject)
  /\ initialFormValues' = Some(ExtendValues)
  /\ appState' = ExtendAppState
  /\ videoUrl' = None /\ errorMessage' = None
  /\ videoUrlFrom' = None
  /\ event' = Other
  /\ UNCHANGED <<lastConfig, lastVideoObject, lastVideoBlob>>
  /\ UNCHANGED <<envVars, audioVars, activeTool, showApiKeyDialog, tasks, vars>>

\* handleExtend when building the file throws, lines 251-259
ExtendFails(e) ==
  /\ VideoResultShown /\ CanExtend
  /\ IsSome(lastVideoBlob) /\ IsSome(lastVideoObject)
  /\ errorMessage' =
       Some("Failed to prepare video for extension: " \o MessageOf(e))
  /\ appState' = ERROR
  /\ event' = Other
  /\ UNCHANGED <<videoUrl, lastConfig, lastVideoObject, lastVideoBlob,
                 initialFormValues, videoUrlFrom>>
  /\ UNCHANGED <<envVars, audioVars, activeTool, showApiKeyDialog, tasks, vars>>

\* handleTryAgainFromVideoError, lines 211-219, from renderError, 308-316
TryAgainFromVideoError ==
  /\ PageEnabled /\ activeTool = "video"
  /\ \/ appState = ERROR /\ IsSome(errorMessage)
     \/ appState = SUCCESS /\ ~IsSome(videoUrl)
  /\ IF IsSome(lastConfig)
     THEN /\ initialFormValues' = lastConfig
          /\ appState' = IDLE
          /\ errorMessage' = None
          /\ UNCHANGED <<videoUrl, lastConfig, lastVideoObject, lastVideoBlob,
                         videoUrlFrom>>
     ELSE HandleNewVideo
  /\ event' = Other
  /\ UNCHANGED <<envVars, audioVars, activeTool, showApiKeyDialog, tasks, vars>>

\* handleNewAudio, lines 204-209, from AudioResult, line 334
NewAudio ==
  /\ PageEnabled /\ activeTool = "audio"
  /\ audioAppState = SUCCESS /\ IsSome(audioUrl)
  /\ audioAppState' = IDLE
  /\ audioUrl' = None /\ audioErrorMessage' = None /\ lastAudioConfig' = None
  /\ event' = Other
  /\ UNCHANGED <<envVars, videoVars, activeTool, showApiKeyDialog, tasks, vars>>

\* handleTryAgainFromAudioError, lines 221-224, from renderError, 337-339
TryAgainFromAudioError ==
  /\ PageEnabled /\ activeTool = "audio"
  /\ audioAppState = ERROR /\ IsSome(audioErrorMessage)
  /\ audioAppState' = IDLE
  /\ audioErrorMessage' = None
  /\ event' = Other
  /\ UNCHANGED <<audioUrl, lastAudioConfig>>
  /\ UNCHANGED <<envVars, videoVars, activeTool, showApiKeyDialog, tasks, vars>>

\* the tool buttons, lines 356-375
SetActiveTool(tool) ==
  /\ PageEnabled
  /\ activeTool' = tool
  /\ event' = Other
  /\ UNCHANGED <<envVars, videoVars, audioVars, showApiKeyDialog, tasks, vars>>

\* lines 186 and 176: the retry handleApiKeyDialogContinue makes for video
RetriesVideo(c) == IsSome(c.lastConfig)

\* line 189
RetriesAudio(c) == IsSome(c.lastAudioConfig)

RetryTasks(c) ==
  (IF RetriesVideo(c) THEN One(VideoTask(Get(c.lastConfig))) ELSE EmptyBag)
  (+) (IF RetriesAudio(c)
       THEN One(AudioTask(Get(c.lastAudioConfig))) ELSE EmptyBag)

\* handleApiKeyDialogContinue, lines 181-192: with window.aistudio it stops
\* at openSelectKey holding the state it was rendered with, without it the
\* retries are made at once
DialogContinue ==
  /\ showApiKeyDialog
  /\ showApiKeyDialog' = FALSE
  /\ IF aistudio
     THEN /\ BagCardinality(tasks) < MaxTasks
          /\ tasks' = tasks (+) One(Task("handleApiKeyDialogContinue",
                                        "openSelectKey", None, Some(Closure)))
          /\ UNCHANGED <<videoVars, audioVars>>
     ELSE /\ BagCardinality(tasks (+) RetryTasks(Closure)) <= MaxTasks
          /\ tasks' = tasks (+) RetryTasks(Closure)
          /\ IF RetriesVideo(Closure)
             THEN VideoBegins(Get(lastConfig)) ELSE UNCHANGED videoVars
          /\ IF RetriesAudio(Closure)
             THEN AudioBegins(Get(lastAudioConfig)) ELSE UNCHANGED audioVars
  /\ event' = Other
  /\ UNCHANGED <<envVars, activeTool, vars>>

\* handleApiKeyDialogContinue after openSelectKey, lines 186-191; the
\* handlers it calls stop at hasSelectedApiKey
OpenSelectKeySettles(t, resolved) ==
  /\ Awaiting(t, "handleApiKeyDialogContinue", "openSelectKey")
  /\ LET retries ==
           IF resolved THEN RetryTasks(Get(t.closure)) ELSE EmptyBag
     IN /\ BagCardinality((tasks (-) One(t)) (+) retries) <= MaxTasks
        /\ tasks' = (tasks (-) One(t)) (+) retries
  /\ event' = Other
  /\ UNCHANGED <<envVars, videoVars, audioVars, activeTool, showApiKeyDialog,
                 vars>>

AppNext ==
  \/ \E t \in BagToSet(tasks), outcome \in KeyCheckOutcomes :
       MountKeyCheckSettles(t, outcome)
  \/ \E p \in AppVideoRequests : SubmitVideoForm(p)
  \/ \E t \in BagToSet(tasks), outcome \in KeyCheckOutcomes :
       VideoKeyCheckSettles(t, outcome)
  \/ \E t \in BagToSet(tasks), r \in AppVideoResults : GenerateVideoResolves(t, r)
  \/ \E t \in BagToSet(tasks), e \in AppVideoFailures : GenerateVideoRejects(t, e)
  \/ \E p \in AppAudioRequests : SubmitAudioForm(p)
  \/ \E t \in BagToSet(tasks), outcome \in KeyCheckOutcomes :
       AudioKeyCheckSettles(t, outcome)
  \/ \E t \in BagToSet(tasks), r \in AppAudioResults : GenerateAudioResolves(t, r)
  \/ \E t \in BagToSet(tasks), e \in AppAudioFailures : GenerateAudioRejects(t, e)
  \/ RetryVideo
  \/ NewVideo
  \/ Extend
  \/ ExtendFails(Error("Failed to construct 'File'."))
  \/ TryAgainFromVideoError
  \/ NewAudio
  \/ TryAgainFromAudioError
  \/ \E tool \in {"video", "audio"} : SetActiveTool(tool)
  \/ DialogContinue
  \/ \E t \in BagToSet(tasks), resolved \in BOOLEAN : OpenSelectKeySettles(t, resolved)

AppSpec == AppInit /\ [][AppNext]_allVars

(***************************************************************************)
(* Properties of the App.                                                  *)
(***************************************************************************)
\* the calls of a service function the App has not seen settle
InFlight(at) ==
  BagCardinality([t \in {u \in BagToSet(tasks) : u.await = at} |-> tasks[t]])

\* C16: the UI serializes requests per workflow: at most one generateVideo
\* call and at most one generateAudio call started by the App is in flight
\* at any time.
C16_OneCallInFlightPerWorkflow ==
  /\ InFlight("generateVideo") <= 1
  /\ InFlight("generateAudio") <= 1

\* the suspended runs of one handler
TasksOf(handler) ==
  [t \in {u \in BagToSet(tasks) : u.handler = handler} |-> tasks[t]]

\* a step of the audio handler alone: it is called, passes or fails the key
\* check, or its generateAudio call settles
AudioStep ==
  /\ TasksOf("handleGenerateAudio")' # TasksOf("handleGenerateAudio")
  /\ TasksOf("handleGenerateVideo")' = TasksOf("handleGenerateVideo")

\* a generateVideo call settles
VideoSettles ==
  /\ InFlight("generateVideo")' < InFlight("generateVideo")
  /\ TasksOf("handleGenerateAudio")' = TasksOf("handleGenerateAudio")

\* C17: starting or settling an audio generation changes only the state of
\* the audio workflow and leaves appState, videoUrl, errorMessage,
\* lastConfig, lastVideoObject and lastVideoBlob as they are, also while a
\* video generation is suspended; the settlement of a video generation
\* leaves audioAppState, audioUrl, audioErrorMessage and lastAudioConfig as
\* they are.
C17_WorkflowsDoNotInterfere ==
  [][ /\ AudioStep =>
           UNCHANGED <<appState, videoUrl, errorMessage, lastConfig,
                       lastVideoObject, lastVideoBlob>>
      /\ VideoSettles =>
           UNCHANGED <<audioAppState, audioUrl, audioErrorMessage,
                       lastAudioConfig>> ]_allVars

\* an audio generation has run to its outcome while a generateVideo call
\* is suspended
C17_Witness ==
  /\ appState = LOADING /\ InFlight("generateVideo") = 1
  /\ audioAppState = ERROR /\ IsSome(audioErrorMessage)
  /\ ~IsSome(errorMessage) /\ IsSome(lastConfig)

\* the message App reads from the failure of the last step
FailureMessage == MessageOf(Get(event.error))

\* C18 (as the code has it): a failed video generation ends in ERROR with
\* a message shown, and the API key dialog is opened if and only if the
\* message contains 'Requested entity was not found.', 'API_KEY_INVALID'
\* or 'API key not valid', or contains 'permission denied' in any
\* letter case.
C18_DialogIffCodeSubstrings ==
  event.kind = "videoRejected" =>
    /\ appState = ERROR
    /\ IsSome(errorMessage) /\ Get(errorMessage) # ""
    /\ event.opened <=>
         \/ Includes(FailureMessage, "Requested entity was not found.")
         \/ Includes(FailureMessage, "API_KEY_INVALID")
         \/ Includes(FailureMessage, "API key not valid")
         \/ Includes(ToLowerCase(FailureMessage), "permission denied")
    /\ event.opened => showApiKeyDialog

\* C18 (as stated): the dialog is opened if and only if the message
\* contains 'entity was not found', 'API_KEY_INVALID', 'API key not valid'
\* or 'permission denied'.
C18_DialogIffListedSubstrings ==
  event.kind = "videoRejected" =>
    /\ appState = ERROR
    /\ IsSome(errorMessage) /\ Get(errorMessage) # ""
    /\ event.opened <=>
         \/ Includes(FailureMessage, "entity was not found")
         \/ Includes(FailureMessage, "API_KEY_INVALID")
         \/ Includes(FailureMessage, "API key not valid")
         \/ Includes(FailureMessage, "permission denied")

\* a failure whose message has 'Permission denied' with a capital letter
\* has opened the dialog
C18_Witness ==
  /\ event.kind = "videoRejected" /\ event.opened
  /\ appState = ERROR /\ showApiKeyDialog
  /\ Includes(ToLowerCase(FailureMessage), "permission denied")
  /\ ~Includes(FailureMessage, "permission denied")

\* C19: a terminal workflow state has its payload: SUCCESS comes with a
\* video (audio) URL and ERROR with a video (audio) error message, so the
\* 'URL is missing' screen and the empty screen are never rendered.
C19_TerminalStateHasPayload ==
  /\ appState = SUCCESS => IsSome(videoUrl) /\ Get(videoUrl) # ""
  /\ appState = ERROR => IsSome(errorMessage) /\ Get(errorMessage) # ""
  /\ audioAppState = SUCCESS => IsSome(audioUrl) /\ Get(audioUrl) # ""
  /\ audioAppState = ERROR =>
       IsSome(audioErrorMessage) /\ Get(audioErrorMessage) # ""

\* the video result was extended into a prefilled form while an audio
\* workflow sits in ERROR
C19_Witness ==
  /\ appState = IDLE /\ ~IsSome(videoUrl)
  /\ IsSome(initialFormValues)
  /\ Get(initialFormValues).mode = EXTEND_VIDEO
  /\ audioAppState = ERROR /\ IsSome(audioErrorMessage)

\* C20: whenever the video workflow is in SUCCESS, lastConfig is the
\* parameter object of the generateVideo call whose result set videoUrl,
\* lastVideoBlob and lastVideoObject.
C20_LastConfigIsOfDisplayedVideo ==
  appState = SUCCESS => lastConfig = videoUrlFrom

\* C21: with window.aistudio, when hasSelectedApiKey resolves false or
\* rejects, handleGenerateVideo and handleGenerateAudio open the API key
\* dialog, call neither generateVideo nor generateAudio, and leave
\* appState, errorMessage, lastConfig, videoUrl and their audio
\* counterparts unchanged.
C21_AbsentKeyOnlyOpensDialog ==
  [][ event'.kind = "keyAbsent" =>
        /\ aistudio
        /\ showApiKeyDialog'
        /\ InFlight("generateVideo")' = InFlight("generateVideo")
        /\ InFlight("generateAudio")' = InFlight("generateAudio")
        /\ UNCHANGED <<appState, errorMessage, lastConfig, videoUrl>>
        /\ UNCHANGED <<audioAppState, audioErrorMessage, lastAudioConfig,
                       audioUrl>> ]_allVars

\* a retry of a shown video met an absent key: the result stays on screen
\* and the dialog is open
C21_Witness ==
  /\ event.kind = "keyAbsent" /\ showApiKeyDialog
  /\ appState = SUCCESS /\ IsSome(videoUrl) /\ IsSome(lastConfig)
  /\ InFlight("generateVideo") = 0

\* handleApiKeyDialogContinue goes past line 185 and calls the handler:
\* after openSelectKey has settled, or in the run of the click itself when
\* there is no window.aistudio
ContinueStarts(handler) ==
  /\ BagCardinality(TasksOf(handler)') > BagCardinality(TasksOf(handler))
  /\ \/ BagCardinality(TasksOf("handleApiKeyDialogContinue")')
          < BagCardinality(TasksOf("handleApiKeyDialogContinue"))
     \/ ~aistudio /\ showApiKeyDialog /\ ~showApiKeyDialog'

\* C22: handleApiKeyDialogContinue starts a retry of a workflow only if
\* that workflow is in ERROR with a stored last config at the moment the
\* retry is started, never for a workflow that has meanwhile been moved
\* to IDLE, LOADING or SUCCESS.
C22_RetryOnlyFromCurrentError ==
  [][ /\ ContinueStarts("handleGenerateVideo") =>
           appState = ERROR /\ IsSome(lastConfig)
      /\ ContinueStarts("handleGenerateAudio") =>
           audioAppState = ERROR /\ IsSome(lastAudioConfig) ]_allVars

====
